---- MODULE Spec2Model ----
(***************************************************************************)
(* Wind-turbine curtailment scenarios: the curtailment-window engine of    *)
(* blanket.py as driven by WindTurbineProcessor.process_turbine, the row   *)
(* loop of power_output.get_power_output, the forward and inverse lookups  *)
(* on a power curve (power_output.power_output and                         *)
(* backward_calc.calc_wind_speed_from_power), the hub-height extrapolation *)
(* and the error handling of WindTurbineProcessor.run.                     *)
(*                                                                         *)
(* Numbers.  Wind speeds, thresholds, temperatures and precipitation are   *)
(* kept in tenths of their unit (5.0 m/s is 50, 9.5 degC is 95, 1 mm is    *)
(* 10); powers are whole kW.  The power-curve lookups use finer units,     *)
(* given with their inputs.  A timestamp is a number of seconds since      *)
(* 2019-01-01 00:00:00.  A cell value is a record [k, v]: k = "num" for a  *)
(* float v, k = "nan" for a missing value (NaN / None), k = "bad" for an   *)
(* object that cannot be ordered against a float (a str read from a CSV    *)
(* column that holds text), for which  x > 9.5  raises TypeError.          *)
(***************************************************************************)
EXTENDS Integers, Sequences, FiniteSets, TLC

VARIABLES
    year,         \* the processing year (app.py: year)
    sun_times,    \* the turbine's sunrise/sunset table, as read_sun_time returns it
    df_blanket,   \* the window table (blanket_extract, then stop_work_time)
    pc,           \* position of process_turbine in its curtailment passes
    pass,         \* "forward" (df_power_out) or "backcalc" (df_backcalc)
    row_in,       \* the row passed to the last datework_row call
    row,          \* the current row / the row datework_row returned
    applied,      \* whether the last datework_row call invoked win_speed_work
    logged,       \* whether the last datework_row call logged a caught exception
    evals,        \* number of datework_row calls made on the current row
    n,            \* number of rows appended to speed_results in this pass
    outcome,      \* process_turbine's return value: "none" while running
    f_in,         \* the arguments of a get_power_output call
    f_i,          \* number of input rows the loop of get_power_output has handled
    f_results,    \* its list `results`
    f_pc,         \* "idle", "loop", "returned" (the DataFrame) or "raised"
    p_curve,      \* the power curve array handed to the two lookups
    p_losses,     \* the loss fraction, in percent
    p_v,          \* the hub wind speed given to power_output
    p_fwd,        \* what power_output returned: [power, factor]
    p_series,     \* the series given to calc_wind_speed_from_power
    p_back,       \* what it returned: [ok, series]; ok is FALSE when it raised
    p_pc,         \* "idle", "ready", "forward", "roundtrip" or "inverse"
    p_site,       \* the site's conditions: [temperature, air_density]
    h_in,         \* the arguments of a wind_speed_at_hub_height call
    h_out,        \* its return value
    h_pc,         \* "idle", "ready" or "done"
    r_env,        \* what is wrong with the files and tables WindTurbineProcessor.run finds
    r_pc,         \* the step run / process_turbine is about to take
    r_failed,     \* the step that raised, "none" while none has
    r_result,     \* "none" while running, "returned" or "raised" once run is over
    r_continue    \* what process_turbine returned: "none", "True" or "False"

cvars == <<year, sun_times, df_blanket, pc, pass, row_in, row, applied, logged, evals, n, outcome>>
fvars == <<f_in, f_i, f_results, f_pc>>
pvars == <<p_curve, p_losses, p_v, p_fwd, p_series, p_back, p_pc, p_site>>
hvars == <<h_in, h_out, h_pc>>
rvars == <<r_env, r_pc, r_failed, r_result, r_continue>>
ovars == <<pvars, hvars, rvars>>
vars == <<cvars, fvars, ovars>>

-----------------------------------------------------------------------------
(* Cell values *)

Num(x) == [k |-> "num", v |-> x]
NaN == [k |-> "nan", v |-> 0]
Bad == [k |-> "bad", v |-> 0]

\* pd.notna: False for NaN / None, True for everything else (a str included)
notna(x) == x.k # "nan"

-----------------------------------------------------------------------------
(* Calendar: pd.to_datetime on "<year>-<MM-DD>" and Timestamp.date() *)

Day == 24 * 60 * 60

IsLeap(y) == (y % 4 = 0 /\ y % 100 # 0) \/ y % 400 = 0

RECURSIVE DaysBeforeYear(_)
DaysBeforeYear(y) ==
    IF y <= 2019 THEN 0
    ELSE DaysBeforeYear(y - 1) + (IF IsLeap(y - 1) THEN 366 ELSE 365)

DaysBeforeMonth(y, m) ==
    <<0, 31, 59, 90, 120, 151, 181, 212, 243, 273, 304, 334>>[m]
        + (IF IsLeap(y) /\ m > 2 THEN 1 ELSE 0)

\* pd.to_datetime(f"{year}-{MM-DD}", format='%Y-%m-%d'): midnight of that date
to_datetime(y, md) == (DaysBeforeYear(y) + DaysBeforeMonth(y, md[1]) + (md[2] - 1)) * Day

\* a timestamp on a date at a time of day
TS(y, m, d, hh, mm, ss) == to_datetime(y, <<m, d>>) + hh * 3600 + mm * 60 + ss

\* Timestamp.date() / Series.dt.date: the calendar day of a timestamp
date(t) == t \div Day

-----------------------------------------------------------------------------
(* Configuration (config.py) *)

\* WIND_SPEEDS = [5.0, 5.5, 6.0, 6.5, 7.0, 7.5, 8.0], in tenths of m/s
WIND_SPEEDS == <<50, 55, 60, 65, 70, 75, 80>>

\* PROCESSING_CONFIG['blanket_start_date'] = '07-15', ['blanket_end_date'] = '09-30'
blanket_start_date == <<7, 15>>
blanket_end_date == <<9, 30>>

\* timedelta(hours=1), in seconds
Hour == 3600

\* row['temp'] > 9.5, in tenths of a degree
TempLimit == 95

\* row['precip'] < 1, in tenths of a millimetre
PrecipLimit == 10

Thresholds == {WIND_SPEEDS[i] : i \in 1..Len(WIND_SPEEDS)}

-----------------------------------------------------------------------------
(* blanket.py *)

\* WindowRow with the two buffers taken the other way round
WindowRow_buffer_outwards(r) ==
    [date |-> r.date,
     rise |-> r.date + r.rise,
     set |-> r.date + r.set,
     one_hour_after_rise |-> r.date + r.rise - Hour,
     one_hour_before_set |-> r.date + r.set + Hour]

\* One row of the window table: the sun row with rise/set turned into
\* timestamps of its date and the two buffer columns added.
WindowRow(r) ==
    [date |-> r.date,
     rise |-> r.date + r.rise,
     set |-> r.date + r.set,
     one_hour_after_rise |-> r.date + r.rise + Hour,
     one_hour_before_set |-> r.date + r.set - Hour]

\* blanket_extract(df, start_date, end_date, year_now).  The result is a frame
\* [rows, cols, dates]: cols tells whether the columns '1_hour_after_rise' and
\* '1_hour_before_set' exist (the early return on an empty selection leaves
\* them out), dates whether column 'date' holds datetimes or date objects.
blanket_extract(df, start_date, end_date, year_now) ==
    LET start_datetime == to_datetime(year_now, start_date)
        end_datetime == to_datetime(year_now, end_date)
        InRange(r) == r.date >= start_datetime /\ r.date <= end_datetime
        df_intime == SelectSeq(df, InRange)
    IN  IF df_intime = <<>>
        THEN [rows |-> <<>>, cols |-> FALSE, dates |-> "datetime"]
        ELSE [rows |-> [i \in 1..Len(df_intime) |-> WindowRow(df_intime[i])],
              cols |-> TRUE, dates |-> "datetime"]

\* stop_work_time on df_results['time']: to_datetime, strftime to whole
\* seconds ('%Y-%m-%d %H:%M:%S'), to_datetime again.  A sub-second fraction
\* is dropped; NaT stays NaT.
format_time(t) == IF t.k = "ts" THEN [k |-> "ts", v |-> t.v, frac |-> 0] ELSE t

\* stop_work_time(df_results, df_blanket), as to df_blanket.  It reads
\* df_results['time'] first: a series frame without that column (the frame
\* pd.DataFrame([]) that get_power_output returns for no rows) raises KeyError
\* before df_blanket is touched.  Reading a window column that does not exist
\* raises KeyError as well (ok = FALSE).  Column 'date' goes through
\* pd.to_datetime(...).dt.date: a datetime or a date becomes the calendar day.
stop_work_time(df_results, df) ==
    IF ~df_results.cols \/ ~df.cols
    THEN [ok |-> FALSE, df |-> df]
    ELSE LET as_datetime(x) == IF df.dates = "datetime" THEN x ELSE x * Day
         IN  [ok |-> TRUE,
              df |-> [rows |-> [i \in 1..Len(df.rows) |->
                                  [df.rows[i] EXCEPT !.date = date(as_datetime(df.rows[i].date))]],
                      cols |-> TRUE,
                      dates |-> "date"]]

\* wind_test with a missing W_hub read as 0 (as after fillna(0))
wind_test_fillna(r, speed_threshold) == r.W_hub.v <= speed_threshold

\* pd.notna(row['W_hub']) and float(row['W_hub']) <= speed_threshold
wind_test(r, speed_threshold) == notna(r.W_hub) /\ r.W_hub.v <= speed_threshold

\* threshold_step with the temperature test written >= 9.5
threshold_step_warm_ge(r, speed_threshold) ==
    LET wind == wind_test(r, speed_threshold)
        r1 == IF wind THEN [r EXCEPT !.blanket[speed_threshold] = Num(0)] ELSE r
    IN  IF wind /\ r.temp.k = "bad"
        THEN [row |-> r1, raised |-> TRUE]
        ELSE IF wind /\ r.temp.k = "num" /\ r.temp.v >= TempLimit /\ r.precip.k = "bad"
        THEN [row |-> r1, raised |-> TRUE]
        ELSE IF wind /\ r.temp.k = "num" /\ r.temp.v >= TempLimit
                     /\ r.precip.k = "num" /\ r.precip.v < PrecipLimit
        THEN [row |-> [r1 EXCEPT !.smart[speed_threshold] = Num(0)], raised |-> FALSE]
        ELSE [row |-> r1, raised |-> FALSE]

\* threshold_step with the blanket rule zeroing the estimate itself as well
threshold_step_zero_power(r, speed_threshold) ==
    LET wind == wind_test(r, speed_threshold)
        r1 == IF wind THEN [r EXCEPT !.blanket[speed_threshold] = Num(0),
                                     !.power_out = Num(0)] ELSE r
    IN  IF wind /\ r.temp.k = "bad"
        THEN [row |-> r1, raised |-> TRUE]
        ELSE IF wind /\ r.temp.k = "num" /\ r.temp.v > TempLimit /\ r.precip.k = "bad"
        THEN [row |-> r1, raised |-> TRUE]
        ELSE IF wind /\ r.temp.k = "num" /\ r.temp.v > TempLimit
                     /\ r.precip.k = "num" /\ r.precip.v < PrecipLimit
        THEN [row |-> [r1 EXCEPT !.smart[speed_threshold] = Num(0)], raised |-> FALSE]
        ELSE [row |-> r1, raised |-> FALSE]

\* threshold_step with the blanket rule on W_hub < speed_threshold
threshold_step_blanket_strict(r, speed_threshold) ==
    LET wind == wind_test(r, speed_threshold)
        r1 == IF wind /\ r.W_hub.v < speed_threshold
              THEN [r EXCEPT !.blanket[speed_threshold] = Num(0)] ELSE r
    IN  IF wind /\ r.temp.k = "bad"
        THEN [row |-> r1, raised |-> TRUE]
        ELSE IF wind /\ r.temp.k = "num" /\ r.temp.v > TempLimit /\ r.precip.k = "bad"
        THEN [row |-> r1, raised |-> TRUE]
        ELSE IF wind /\ r.temp.k = "num" /\ r.temp.v > TempLimit
                     /\ r.precip.k = "num" /\ r.precip.v < PrecipLimit
        THEN [row |-> [r1 EXCEPT !.smart[speed_threshold] = Num(0)], raised |-> FALSE]
        ELSE [row |-> r1, raised |-> FALSE]

\* threshold_step with the smart rule marking the cell as missing
threshold_step_smart_nan(r, speed_threshold) ==
    LET wind == wind_test(r, speed_threshold)
        r1 == IF wind THEN [r EXCEPT !.blanket[speed_threshold] = Num(0)] ELSE r
    IN  IF wind /\ r.temp.k = "bad"
        THEN [row |-> r1, raised |-> TRUE]
        ELSE IF wind /\ r.temp.k = "num" /\ r.temp.v > TempLimit /\ r.precip.k = "bad"
        THEN [row |-> r1, raised |-> TRUE]
        ELSE IF wind /\ r.temp.k = "num" /\ r.temp.v > TempLimit
                     /\ r.precip.k = "num" /\ r.precip.v < PrecipLimit
        THEN [row |-> [r1 EXCEPT !.smart[speed_threshold] = NaN], raised |-> FALSE]
        ELSE [row |-> r1, raised |-> FALSE]

\* threshold_step that hands the power back to a blanket column it finds at 0
threshold_step_toggle(r, speed_threshold) ==
    LET wind == wind_test(r, speed_threshold)
        r1 == IF wind
              THEN [r EXCEPT !.blanket[speed_threshold] =
                        IF r.blanket[speed_threshold] = Num(0) THEN r.power_out ELSE Num(0)]
              ELSE r
    IN  [row |-> r1, raised |-> FALSE]

\* One pass of the loop body of win_speed_work for one threshold: the blanket
\* assignment, then the smart condition.  Python evaluates the smart condition
\* left to right with short-circuit, so temp is compared only when the wind
\* test passed and precip only when the temperature test passed too; comparing
\* a non-numeric object raises TypeError after the blanket assignment was made.
\* NaN > 9.5 and NaN < 1 are False.  The result is [row, raised].
threshold_step(r, speed_threshold) ==
    LET wind == wind_test(r, speed_threshold)
        r1 == IF wind THEN [r EXCEPT !.blanket[speed_threshold] = Num(0)] ELSE r
    IN  IF wind /\ r.temp.k = "bad"
        THEN [row |-> r1, raised |-> TRUE]
        ELSE IF wind /\ r.temp.k = "num" /\ r.temp.v > TempLimit /\ r.precip.k = "bad"
        THEN [row |-> r1, raised |-> TRUE]
        ELSE IF wind /\ r.temp.k = "num" /\ r.temp.v > TempLimit
                     /\ r.precip.k = "num" /\ r.precip.v < PrecipLimit
        THEN [row |-> [r1 EXCEPT !.smart[speed_threshold] = Num(0)], raised |-> FALSE]
        ELSE [row |-> r1, raised |-> FALSE]

\* win_speed_work(row, speed) from threshold number i on.  The whole loop sits
\* in one try block: the first step that raises ends the loop, and the except
\* branch returns the row as mutated so far.
RECURSIVE win_speed_from(_, _, _)
win_speed_from(r, speed, i) ==
    IF i > Len(speed) THEN [row |-> r, raised |-> FALSE]
    ELSE LET s == threshold_step(r, speed[i])
         IN  IF s.raised THEN s ELSE win_speed_from(s.row, speed, i + 1)

win_speed_work(r, speed) == win_speed_from(r, speed, 1)

\* datework_applies with the two window bounds exclusive
datework_applies_exclusive(r, start_date, end_date, yr, df) ==
    LET start_datetime == to_datetime(yr, start_date)
        end_datetime == to_datetime(yr, end_date)
        OnDate(b) == b.date = date(r.time.v)
        blanket_rows == SelectSeq(df.rows, OnDate)
    IN  /\ r.time.k = "ts"
        /\ start_datetime <= r.time.v /\ r.time.v <= end_datetime
        /\ blanket_rows # <<>>
        /\ LET rise_time == blanket_rows[1].one_hour_after_rise
               set_time == blanket_rows[1].one_hour_before_set
           IN  r.time.v < rise_time \/ r.time.v > set_time

\* datework_applies with the season start exclusive
datework_applies_open_start(r, start_date, end_date, yr, df) ==
    LET start_datetime == to_datetime(yr, start_date)
        end_datetime == to_datetime(yr, end_date)
        OnDate(b) == b.date = date(r.time.v)
        blanket_rows == SelectSeq(df.rows, OnDate)
    IN  /\ r.time.k = "ts"
        /\ start_datetime < r.time.v /\ r.time.v <= end_datetime
        /\ blanket_rows # <<>>
        /\ LET rise_time == blanket_rows[1].one_hour_after_rise
               set_time == blanket_rows[1].one_hour_before_set
           IN  r.time.v <= rise_time \/ r.time.v >= set_time

\* datework_applies skipping a day whose window bounds are not in order
datework_applies_tolerant(r, start_date, end_date, yr, df) ==
    LET start_datetime == to_datetime(yr, start_date)
        end_datetime == to_datetime(yr, end_date)
        OnDate(b) == b.date = date(r.time.v)
        blanket_rows == SelectSeq(df.rows, OnDate)
    IN  /\ r.time.k = "ts"
        /\ start_datetime <= r.time.v /\ r.time.v <= end_datetime
        /\ blanket_rows # <<>>
        /\ LET rise_time == blanket_rows[1].one_hour_after_rise
               set_time == blanket_rows[1].one_hour_before_set
           IN  rise_time < set_time /\ (r.time.v <= rise_time \/ r.time.v >= set_time)

\* datework_applies with the season running to the end of the end date
datework_applies_whole_end_day(r, start_date, end_date, yr, df) ==
    LET start_datetime == to_datetime(yr, start_date)
        end_datetime == to_datetime(yr, end_date)
        OnDate(b) == b.date = date(r.time.v)
        blanket_rows == SelectSeq(df.rows, OnDate)
    IN  /\ r.time.k = "ts"
        /\ start_datetime <= r.time.v /\ r.time.v < end_datetime + Day
        /\ blanket_rows # <<>>
        /\ LET rise_time == blanket_rows[1].one_hour_after_rise
               set_time == blanket_rows[1].one_hour_before_set
           IN  r.time.v <= rise_time \/ r.time.v >= set_time

\* datework_applies falling back to the first window when the date has none
datework_applies_any_date(r, start_date, end_date, yr, df) ==
    LET start_datetime == to_datetime(yr, start_date)
        end_datetime == to_datetime(yr, end_date)
        OnDate(b) == b.date = date(r.time.v)
        blanket_rows == IF SelectSeq(df.rows, OnDate) = <<>> THEN df.rows ELSE SelectSeq(df.rows, OnDate)
    IN  /\ r.time.k = "ts"
        /\ start_datetime <= r.time.v /\ r.time.v <= end_datetime
        /\ blanket_rows # <<>>
        /\ LET rise_time == blanket_rows[1].one_hour_after_rise
               set_time == blanket_rows[1].one_hour_before_set
           IN  r.time.v <= rise_time \/ r.time.v >= set_time

\* The guard chain of datework_row: the row is in the season of the year, its
\* date is in the window table, and its time is not strictly between the first
\* matching window's two bounds.
datework_applies(r, start_date, end_date, yr, df) ==
    LET start_datetime == to_datetime(yr, start_date)
        end_datetime == to_datetime(yr, end_date)
        OnDate(b) == b.date = date(r.time.v)
        blanket_rows == SelectSeq(df.rows, OnDate)
    IN  /\ r.time.k = "ts"
        /\ start_datetime <= r.time.v /\ r.time.v <= end_datetime
        /\ blanket_rows # <<>>
        /\ LET rise_time == blanket_rows[1].one_hour_after_rise
               set_time == blanket_rows[1].one_hour_before_set
           IN  r.time.v <= rise_time \/ r.time.v >= set_time

\* datework_row(row, start_date, end_date, year, speed, df_blanket): the result
\* is [row, applied, logged]; no exception leaves it (both functions catch
\* everything and return the row).
datework_row(r, start_date, end_date, yr, speed, df) ==
    IF datework_applies(r, start_date, end_date, yr, df)
    THEN LET w == win_speed_work(r, speed)
         IN  [row |-> w.row, applied |-> TRUE, logged |-> w.raised]
    ELSE [row |-> r, applied |-> FALSE, logged |-> FALSE]

\* app.py: df[f'blanket_{speed}'] = df['power_out']; df[f'smart_{speed}'] = df['power_out']
init_columns(r, wind_speeds) ==
    [time |-> r.time, temp |-> r.temp, precip |-> r.precip,
     W_hub |-> r.W_hub, power_out |-> r.power_out,
     blanket |-> [T \in {wind_speeds[i] : i \in 1..Len(wind_speeds)} |-> r.power_out],
     smart |-> [T \in {wind_speeds[i] : i \in 1..Len(wind_speeds)} |-> r.power_out]]


-----------------------------------------------------------------------------
(* power_output.py *)

\* RHO_STD = 1.225 kg/m3, in g/m3
RHO_STD == 1225

\* PHYSICAL_CONSTANTS['ref_height'] = 10 m, as the exponent of 10
ref_height == 1

\* PHYSICAL_CONSTANTS['losses'] = 0, in percent
losses == 0

\* Heights and roughness lengths are powers of ten, 10^e metres, kept as the
\* exponent e, so that ln(a / b) / ln(c / b) is the exact quotient
\* (e_a - e_b) / (e_c - e_b).  A roughness is [k, e]: k = "num" for 10^e,
\* "nonpos" for a value <= 0, "nan" for NaN, "none" for None (get_roughness
\* found nothing), which cannot be compared with 0.
Rough(e) == [k |-> "num", e |-> e]
RoughNone == [k |-> "none", e |-> 0]
RoughNonPos == [k |-> "nonpos", e |-> 0]
RoughNaN == [k |-> "nan", e |-> 0]
Inf == [k |-> "inf", v |-> 0]

\* wind_speed_at_hub_height returning the reference speed for a roughness <= 0
\* instead of substituting 0.1
wind_speed_at_hub_height_no_default(wind_speed, hub_height, surface_roughness, ref) ==
    IF surface_roughness.k \in {"none", "nonpos"} THEN wind_speed
    ELSE LET e == surface_roughness.e
         IN  IF surface_roughness.k = "nan" THEN NaN
             ELSE IF hub_height <= e THEN wind_speed
             ELSE IF wind_speed.k # "num" THEN wind_speed
             ELSE IF ref = e THEN (IF wind_speed.v = 0 THEN NaN ELSE Inf)
             ELSE Num((wind_speed.v * (hub_height - e)) \div (ref - e))

\* wind_speed_at_hub_height(wind_speed, hub_height, surface_roughness, ref_height).
\* None <= 0 raises TypeError, caught: the reference speed is returned.  A
\* roughness <= 0 becomes 0.1.  The logarithms are numpy floats, so a zero
\* denominator (ref_height = roughness) gives inf, or nan for a speed of 0,
\* without an exception.  The quotient is rounded down to the unit.
wind_speed_at_hub_height(wind_speed, hub_height, surface_roughness, ref) ==
    IF surface_roughness.k = "none" THEN wind_speed
    ELSE LET e == IF surface_roughness.k = "nonpos" THEN -1 ELSE surface_roughness.e
         IN  IF surface_roughness.k = "nan" THEN NaN
             ELSE IF hub_height <= e THEN wind_speed
             ELSE IF wind_speed.k # "num" THEN wind_speed
             ELSE IF ref = e THEN (IF wind_speed.v = 0 THEN NaN ELSE Inf)
             ELSE Num((wind_speed.v * (hub_height - e)) \div (ref - e))

\* power_interp with kind='previous': the power of the sample below x
power_interp_previous(pts, x) ==
    IF x.k = "nan" THEN NaN
    ELSE IF x.k = "inf" THEN Num(0)
    ELSE IF x.v < pts[1][1] \/ x.v > pts[Len(pts)][1] THEN Num(0)
    ELSE LET hi == CHOOSE j \in 2..Len(pts) :
                      x.v <= pts[j][1] /\ \A m \in 2..(j - 1) : x.v > pts[m][1]
         IN  Num(pts[hi - 1][2])

\* interp1d(wind_speeds, powers, kind='linear', bounds_error=False, fill_value=0)
\* at x: 0 outside [x_1, x_n], NaN for NaN, else the line through the two
\* samples that bracket x (the first sample pair whose upper end is >= x).
power_interp(pts, x) ==
    IF x.k = "nan" THEN NaN
    ELSE IF x.k = "inf" THEN Num(0)
    ELSE IF x.v < pts[1][1] \/ x.v > pts[Len(pts)][1] THEN Num(0)
    ELSE LET hi == CHOOSE j \in 2..Len(pts) :
                      x.v <= pts[j][1] /\ \A m \in 2..(j - 1) : x.v > pts[m][1]
             lo == hi - 1
         IN  Num(pts[lo][2] + ((pts[hi][2] - pts[lo][2]) * (x.v - pts[lo][1]))
                                  \div (pts[hi][1] - pts[lo][1]))

\* s, a sequence of pairs ordered by first component, with the pair p put
\* after every pair whose first component is at most p's
RECURSIVE insert_sorted(_, _)
insert_sorted(s, p) ==
    IF s = <<>> THEN <<p>>
    ELSE IF s[Len(s)][1] <= p[1] THEN Append(s, p)
    ELSE Append(insert_sorted(SubSeq(s, 1, Len(s) - 1), p), s[Len(s)])

\* interp1d(..., assume_sorted=False) orders the samples by wind speed with a
\* stable argsort before it interpolates
RECURSIVE sort_by_wind(_)
sort_by_wind(pts) ==
    IF pts = <<>> THEN <<>>
    ELSE insert_sorted(sort_by_wind(SubSeq(pts, 1, Len(pts) - 1)), pts[Len(pts)])

\* (air_density / RHO_STD) ** (1.0 / 3) for a density that is RHO_STD times a cube
adjustment_factor(air_density) ==
    CHOOSE f \in 1..3 : f * f * f * RHO_STD = air_density

\* power_output(wind_speed_hub, air_density, power_curve, losses): the result
\* is [power, factor].  A curve is [ndim, cols, pts]; a curve that is not
\* two-dimensional makes power_curve.shape[1] raise, and the except branch
\* returns (0.0, 1.0); fewer than two columns returns (0.0, factor).
power_output(wind_speed_hub, air_density, power_curve, loss) ==
    IF power_curve.ndim # 2 THEN [power |-> Num(0), factor |-> 1]
    ELSE IF power_curve.cols < 2
    THEN [power |-> Num(0), factor |-> adjustment_factor(air_density)]
    ELSE LET f == adjustment_factor(air_density)
             adjusted_wind_speed == IF wind_speed_hub.k = "num"
                                    THEN Num(wind_speed_hub.v * f) ELSE wind_speed_hub
             p == power_interp(sort_by_wind(power_curve.pts), adjusted_wind_speed)
         IN  [power |-> IF p.k = "num" THEN Num((p.v * (100 - loss)) \div 100) ELSE p,
              factor |-> f]

\* get_power_output: air_density = RHO_STD, whatever the temperature of the row
forward_air_density(temperature) == RHO_STD

\* Series.iloc[i] (i counted from 1 here): IndexError past the end
iloc_ok(series, i) == i >= 1 /\ i <= Len(series)

\* the columns of metdata that get_power_output reads
ForwardColumns == {"Date/Time (LST)", "Precip. Amount (mm)"}

\* metdata[c]: KeyError when the frame has no column c
has_column(metdata, c) == c \in metdata.columns

\* The try block of the loop body of get_power_output for row i: [ok, row].
\* It reads wind_speed.iloc[i] and surface_roughness.iloc[i], then the time and
\* precipitation of metdata row i; the two callees catch their own exceptions.
try_row(inp, i) ==
    IF iloc_ok(inp.wind_speed, i) /\ iloc_ok(inp.surface_roughness, i)
       /\ has_column(inp.metdata, "Date/Time (LST)") /\ iloc_ok(inp.metdata.time, i)
       /\ has_column(inp.metdata, "Precip. Amount (mm)")
    THEN LET wind_speed_hub == wind_speed_at_hub_height(inp.wind_speed[i], inp.hub_height,
                                   inp.surface_roughness[i], inp.ref_height)
             air_density == forward_air_density(inp.temperature[i])
             po == power_output(wind_speed_hub, air_density, inp.power_curve, inp.losses)
         IN  [ok |-> TRUE,
              row |-> [time |-> inp.metdata.time[i], temp |-> inp.temperature[i],
                       precip |-> inp.metdata.precip[i], WindSp |-> inp.wind_speed[i],
                       W_hub |-> wind_speed_hub, power_out |-> po.power]]
    ELSE [ok |-> FALSE, row |-> <<>>]

\* The except block for row i: [ok, row].  It reads the time and precipitation
\* of metdata row i and wind_speed.iloc[i] again; an exception raised here
\* leaves the loop and is re-raised by the outer handler.
fallback_row(inp, i) ==
    IF has_column(inp.metdata, "Date/Time (LST)") /\ iloc_ok(inp.metdata.time, i)
       /\ has_column(inp.metdata, "Precip. Amount (mm)") /\ iloc_ok(inp.wind_speed, i)
    THEN [ok |-> TRUE,
          row |-> [time |-> inp.metdata.time[i], temp |-> inp.temperature[i],
                   precip |-> inp.metdata.precip[i], WindSp |-> inp.wind_speed[i],
                   W_hub |-> Num(0), power_out |-> Num(0)]]
    ELSE [ok |-> FALSE, row |-> <<>>]

-----------------------------------------------------------------------------
(* backward_calc.py.  In the lookups of this section wind speeds are in      *)
(* hundredths of m/s and powers in tenths of kW; a quotient is rounded down  *)
(* to the unit.  A series is a sequence of cells [index, value].             *)

\* np.unique(power, return_index=True) paired with wind[idx]: the distinct
\* powers in increasing order, each with the wind speed of the first sample
\* (in curve order) that has this power.  The pairs are <<power, wind>>.
RECURSIVE unique_first(_)
unique_first(pts) ==
    IF pts = <<>> THEN <<>>
    ELSE LET earlier == unique_first(SubSeq(pts, 1, Len(pts) - 1))
             p == pts[Len(pts)]
         IN  IF \E i \in 1..Len(earlier) : earlier[i][1] = p[2] THEN earlier
             ELSE insert_sorted(earlier, <<p[2], p[1]>>)

\* inverse_interp with the end values in place of NaN outside the power range
inverse_interp_clamped(upts, power) ==
    IF power.k # "num" THEN NaN
    ELSE IF power.v < upts[1][1] THEN Num(upts[1][2])
    ELSE IF power.v > upts[Len(upts)][1] THEN Num(upts[Len(upts)][2])
    ELSE power_interp(upts, power)

\* interp1d(uniq_power, wind[idx], bounds_error=False, fill_value=np.nan,
\* assume_sorted=True) at a power: NaN for NaN and outside [min power, max
\* power], else the same linear kernel as the forward lookup.
inverse_interp(upts, power) ==
    IF power.k # "num" THEN NaN
    ELSE IF power.v < upts[1][1] \/ power.v > upts[Len(upts)][1] THEN NaN
    ELSE power_interp(upts, power)

\* _inverse_power_curve(power_curve): the samples the inverse interpolator is
\* built on
inverse_power_curve(power_curve) == unique_first(power_curve.pts)

\* P_corr = P_T_series / (1 - losses) * density_corr, with density_corr =
\* (rho_std / air_density) ** (1 / 3), the inverse of the forward factor; loss
\* is in percent
P_corr(P, loss, air_density) ==
    IF P.k = "num"
    THEN Num((P.v * 100) \div ((100 - loss) * adjustment_factor(air_density)))
    ELSE P

\* calc_wind_speed_from_power without index=P_T_series.index (a RangeIndex)
calc_wind_speed_from_power_reset_index(P_T_series, power_curve, air_density, loss) ==
    IF power_curve.ndim # 2 \/ power_curve.cols < 2 THEN [ok |-> FALSE, series |-> <<>>]
    ELSE [ok |-> TRUE,
          series |-> [i \in 1..Len(P_T_series) |->
                        [index |-> i - 1,
                         value |-> inverse_interp(inverse_power_curve(power_curve),
                                                  P_corr(P_T_series[i].value, loss, RHO_STD))]]]

\* calc_wind_speed_from_power without `air_density = rho_std`: the density of
\* the site enters the correction
calc_wind_speed_from_power_site_density(P_T_series, power_curve, air_density, loss) ==
    IF power_curve.ndim # 2 \/ power_curve.cols < 2 THEN [ok |-> FALSE, series |-> <<>>]
    ELSE [ok |-> TRUE,
          series |-> [i \in 1..Len(P_T_series) |->
                        [index |-> P_T_series[i].index,
                         value |-> inverse_interp(inverse_power_curve(power_curve),
                                                  P_corr(P_T_series[i].value, loss,
                                                         air_density))]]]

\* calc_wind_speed_from_power(P_T_series, power_curve, air_density, losses):
\* [ok, series].  power_curve[:, 0] or [:, 1] raises IndexError on an array
\* that is not two-dimensional or has one column (ok = FALSE); the argument
\* air_density is overwritten by rho_std before density_corr is computed.  The
\* result carries the index of P_T_series.
calc_wind_speed_from_power(P_T_series, power_curve, air_density, loss) ==
    IF power_curve.ndim # 2 \/ power_curve.cols < 2 THEN [ok |-> FALSE, series |-> <<>>]
    ELSE LET rho_used == RHO_STD
         IN  [ok |-> TRUE,
              series |-> [i \in 1..Len(P_T_series) |->
                            [index |-> P_T_series[i].index,
                             value |-> inverse_interp(inverse_power_curve(power_curve),
                                                      P_corr(P_T_series[i].value, loss,
                                                             rho_used))]]]

-----------------------------------------------------------------------------
(* Inputs of the curtailment passes *)

\* rows re-evaluated at most this many times, series of at most this many rows
MaxEval == 2
MaxRows == 2

Years == {2020, 2021}

SunRow(y, m, d, rise_h, rise_m, set_h, set_m) ==
    [date |-> to_datetime(y, <<m, d>>),
     rise |-> rise_h * 3600 + rise_m * 60,
     set |-> set_h * 3600 + set_m * 60]

\* Sun tables of one turbine, dates already moved to the processing year
\* (read_sun_time): a full table, one with no row for 1 August, one whose
\* 1 August is a short day (sunset - 1h before sunrise + 1h), one where the two
\* bounds coincide, one with two rows for 1 August, and one with no date
\* inside the season.
SunTables(y) ==
    { <<SunRow(y, 7, 14, 6, 0, 20, 0), SunRow(y, 7, 15, 6, 0, 20, 0),
        SunRow(y, 8, 1, 6, 0, 20, 0), SunRow(y, 9, 30, 6, 0, 20, 0),
        SunRow(y, 10, 1, 6, 0, 20, 0)>>,
      <<SunRow(y, 7, 15, 5, 30, 21, 0), SunRow(y, 9, 30, 7, 0, 19, 0)>>,
      <<SunRow(y, 7, 15, 6, 0, 20, 0), SunRow(y, 8, 1, 11, 0, 12, 30)>>,
      <<SunRow(y, 8, 1, 11, 0, 13, 0), SunRow(y, 9, 30, 6, 0, 20, 0)>>,
      <<SunRow(y, 8, 1, 6, 0, 20, 0), SunRow(y, 8, 1, 11, 0, 12, 30)>>,
      <<SunRow(y, 7, 14, 6, 0, 20, 0), SunRow(y, 10, 1, 6, 0, 20, 0)>> }

Stamp(t) == [k |-> "ts", v |-> t, frac |-> 0]
NaT == [k |-> "nat", v |-> 0, frac |-> 0]

\* Timestamps of the series rows, relative to the processing year y
RawTimes(y) ==
    { Stamp(TS(y, 7, 14, 23, 59, 59)), Stamp(TS(y, 7, 15, 0, 0, 0)),
      Stamp(TS(y, 8, 1, 6, 30, 0)), Stamp(TS(y, 8, 1, 7, 0, 0)),
      [k |-> "ts", v |-> TS(y, 8, 1, 7, 0, 0), frac |-> 1],
      Stamp(TS(y, 8, 1, 7, 0, 1)), Stamp(TS(y, 8, 1, 11, 45, 0)),
      Stamp(TS(y, 8, 1, 12, 0, 0)),
      Stamp(TS(y, 8, 1, 18, 59, 59)), Stamp(TS(y, 8, 1, 19, 0, 0)),
      Stamp(TS(y, 9, 30, 0, 0, 0)), Stamp(TS(y, 9, 30, 5, 0, 0)),
      Stamp(TS(y + 1, 8, 1, 6, 30, 0)), Stamp(TS(y - 1, 8, 1, 6, 30, 0)),
      NaT }

WindValues == {NaN, Num(40), Num(50), Num(62), Num(85)}
TempValues == {Num(50), Num(95), Num(100), NaN, Bad}
PrecipValues == {Num(0), Num(10), Bad}
PowerValues == {Num(0), Num(1000)}

RawRows(y) ==
    [time : RawTimes(y), temp : TempValues, precip : PrecipValues,
     W_hub : WindValues, power_out : PowerValues]

NoFrame == [rows |-> <<>>, cols |-> FALSE, dates |-> "datetime"]

\* The series frame of a pass, as to its columns: df_power_out is
\* pd.DataFrame(results), which has the columns of the result rows, or no
\* column at all when get_power_output produced no row; df_backcalc is built
\* from a dict of columns and always has them.
SeriesFrame == [cols |-> TRUE]
EmptyFrame == [cols |-> FALSE]
SeriesFrames(p) == IF p = "forward" THEN {SeriesFrame, EmptyFrame} ELSE {SeriesFrame}
NoRow ==
    init_columns([time |-> NaT, temp |-> NaN, precip |-> NaN, W_hub |-> NaN,
                  power_out |-> NaN], WIND_SPEEDS)

\* series of at most this many rows are passed to get_power_output
MaxLen == 2

\* a two-column curve with integer slopes, and an array that is not 2-D
GoodCurve == [ndim |-> 2, cols |-> 2,
              pts |-> <<<<0, 0>>, <<30, 0>>, <<120, 900>>, <<250, 900>>, <<251, 0>>>>]
FlatArray == [ndim |-> 1, cols |-> 0, pts |-> <<>>]

\* The arguments of a get_power_output call as process_turbine makes it:
\* temperature, wind_speed and surface_roughness are the columns 'Temp (°C)',
\* 'Wind Spd (m/s)' and 'Roughness' of the frame passed as metdata, so the
\* three series and every column of metdata have the one length len.  Row i of
\* metdata is stamped i hours after midnight.  process_turbine has read the
\* column 'Date/Time (LST)' before the call but not 'Precip. Amount (mm)',
\* which the frame may lack.
ForwardCalls ==
    UNION { { [temperature |-> [i \in 1..len |-> Num(90 + 10 * i)],
               wind_speed |-> ws,
               hub_height |-> 2,
               surface_roughness |-> sr,
               ref_height |-> ref_height,
               power_curve |-> pcv,
               losses |-> losses,
               metdata |-> [columns |-> cols,
                            time |-> [i \in 1..len |-> Stamp(TS(2020, 8, 1, i, 0, 0))],
                            precip |-> IF "Precip. Amount (mm)" \in cols
                                       THEN [i \in 1..len |-> Num(0)] ELSE <<>>]] :
                ws \in [1..len -> {Num(0), Num(80)}],
                sr \in [1..len -> {Rough(-1), RoughNone}],
                pcv \in {GoodCurve, FlatArray},
                cols \in {ForwardColumns, ForwardColumns \ {"Precip. Amount (mm)"}} } :
            len \in 0..MaxLen }

NoCall == [temperature |-> <<>>, wind_speed |-> <<>>, hub_height |-> 0,
           surface_roughness |-> <<>>, ref_height |-> 0, power_curve |-> FlatArray,
           losses |-> 0, metdata |-> [columns |-> {}, time |-> <<>>, precip |-> <<>>]]

-----------------------------------------------------------------------------
(* Inputs of the power-curve lookups, of the hub-height extrapolation and of *)
(* WindTurbineProcessor.run                                                  *)

\* series of at most this many cells are passed to calc_wind_speed_from_power
MaxSeries == 2

\* The curve of the concrete scenario, {(0,0), (3,0), (12,1000), (25,1000),
\* (25.01,0)}; a curve that rises throughout; one with a negative power
\* sample; the rising curve with its rows out of order; a one-column array.
\* Every two-column curve here has at least two distinct powers.
ScenarioCurve == [ndim |-> 2, cols |-> 2,
                  pts |-> <<<<0, 0>>, <<300, 0>>, <<1200, 10000>>, <<2500, 10000>>,
                            <<2501, 0>>>>]
RisingCurve == [ndim |-> 2, cols |-> 2,
                pts |-> <<<<300, 0>>, <<1200, 9000>>, <<1500, 10500>>>>]
NegativeCurve == [ndim |-> 2, cols |-> 2,
                  pts |-> <<<<0, -300>>, <<300, 0>>, <<1200, 10000>>>>]
UnsortedCurve == [ndim |-> 2, cols |-> 2,
                  pts |-> <<<<1200, 9000>>, <<300, 0>>, <<1500, 10500>>>>]
\* a curve file listed from the highest wind speed down
DescendingCurve == [ndim |-> 2, cols |-> 2,
                    pts |-> <<<<1200, 10000>>, <<300, 0>>, <<0, 0>>>>]
OneColumn == [ndim |-> 2, cols |-> 1, pts |-> <<>>]

Curves == {ScenarioCurve, RisingCurve, NegativeCurve, UnsortedCurve, DescendingCurve,
           OneColumn, FlatArray}

LossValues == {0, 10}

\* hub wind speeds: below, at, between, and above the samples, not finite
LookupWinds == {Num(-100), Num(0), Num(100), Num(300), Num(600), Num(900), Num(1200),
                Num(1400), Num(2000), Num(2500), Num(2501), Num(3000), NaN, Inf}

\* per-unit powers: missing (no observation merged), below, inside and above
LookupPowers == {NaN, Num(-10), Num(0), Num(3333), Num(5000), Num(10000), Num(15000)}

\* the index labels of a series of a given length
IndexLabels(len) == {[i \in 1..len |-> i - 1], [i \in 1..len |-> 10 - i]}

PowerSeries ==
    UNION { { [i \in 1..len |-> [index |-> idx[i], value |-> vals[i]]] :
                idx \in IndexLabels(len), vals \in [1..len -> LookupPowers] } :
            len \in 0..MaxSeries }

NoLookup == [power |-> NaN, factor |-> 0]
NoSeries == [ok |-> TRUE, series |-> <<>>]

\* the conditions of the site: the temperature of the row (tenths of a degree)
\* and the air density computed for it (g/m3), standard or eight times that
SiteTemperatures == {Num(-100), Num(250)}
SiteDensities == {RHO_STD, 8 * RHO_STD}
Sites == [temperature : SiteTemperatures, air_density : SiteDensities]
NoSite == [temperature |-> NaN, air_density |-> RHO_STD]

LookupIdle ==
    /\ p_site = NoSite
    /\ p_curve = FlatArray
    /\ p_losses = 0
    /\ p_v = NaN
    /\ p_fwd = NoLookup
    /\ p_series = <<>>
    /\ p_back = NoSeries
    /\ p_pc = "idle"

\* heights and roughness lengths are powers of ten, kept as their exponent:
\* 0.1 m is -1, 10 m is 1, 100 m is 2; wind speeds are in tenths of m/s
HubCalls ==
    [wind_speed : {Num(0), Num(80), Num(125)},
     hub_height : {-1, 0, 1, 2},
     surface_roughness : {Rough(-2), Rough(-1), Rough(0), Rough(1), Rough(2), RoughNonPos},
     ref_height : {-1, 0, 1}]

NoHubCall == [wind_speed |-> NaN, hub_height |-> 0, surface_roughness |-> RoughNone,
              ref_height |-> 0]

HubIdle ==
    /\ h_in = NoHubCall
    /\ h_out = NaN
    /\ h_pc = "idle"

\* What can be wrong with the inputs when run starts.  The first five are met
\* by load_turbine_data, find_input_file, find_real_data_file and read_data;
\* the last two would be met by process_meteorological_data and read_sun_time,
\* which process_turbine never gets to
Faults ==
    {"index not in configuration", "no input file", "no real data file",
     "turbine not in configuration", "no power curve file", "required column absent",
     "no sun data for turbine"}

RunIdle ==
    /\ r_env = {}
    /\ r_pc = "idle"
    /\ r_failed = "none"
    /\ r_result = "none"
    /\ r_continue = "none"

-----------------------------------------------------------------------------
(* WindTurbineProcessor.process_turbine: the two curtailment passes, that is *)
(* its statements from blanket_extract on, started with a forward series and *)
(* a sun table at hand.  (Entered through run, process_turbine fails before  *)
(* them: see ReadRealPowerData.)                                             *)

\* the columns of metdata the statements between the two passes read
BackcalcColumns ==
    {"Stn Press (kPa)", "Temp (degC)", "Volume", "Date/Time (LST)", "Precip. Amount (mm)"}

\* what those statements are given: the power curve array and the columns
\* metdata has
BackcalcInputs ==
    [power_curve : {RisingCurve, OneColumn, FlatArray},
     columns : {BackcalcColumns, BackcalcColumns \ {"Precip. Amount (mm)"},
                BackcalcColumns \ {"Stn Press (kPa)"}}]

\* air_density = calculate_air_density(metdata[...], metdata[...]);
\* per_turbine_kw = metdata["Volume"] / number_of_turbines; W_hub_backcalc =
\* calc_wind_speed_from_power(...); df_backcalc = pd.DataFrame({...}): whether
\* one of them raises
backcalc_raises(inp) ==
    \/ ~(BackcalcColumns \subseteq inp.columns)
    \/ ~calc_wind_speed_from_power(<<>>, inp.power_curve, RHO_STD, 0).ok

Init ==
    /\ year \in Years
    /\ sun_times \in SunTables(year)
    /\ df_blanket = NoFrame
    /\ pc = "blanket_extract"
    /\ pass = "forward"
    /\ row_in = NoRow
    /\ row = NoRow
    /\ applied = FALSE
    /\ logged = FALSE
    /\ evals = 0
    /\ n = 0
    /\ outcome = "none"
    /\ f_in = NoCall
    /\ f_i = 0
    /\ f_results = <<>>
    /\ f_pc = "idle"
    /\ LookupIdle /\ HubIdle /\ RunIdle

\* df_blanket = blanket.blanket_extract(sun_times, start_date, end_date, year)
BlanketExtract ==
    /\ pc = "blanket_extract"
    /\ df_blanket' = blanket_extract(sun_times, blanket_start_date, blanket_end_date, year)
    /\ pc' = "stop_work_time"
    /\ UNCHANGED <<year, sun_times, pass, row_in, row, applied, logged, evals, n, outcome>>
    /\ UNCHANGED <<fvars, ovars>>

\* df, df_blanket = blanket.stop_work_time(df, df_blanket), before each pass
StopWorkTime ==
    /\ pc = "stop_work_time"
    /\ \E df_results \in SeriesFrames(pass) :
          /\ stop_work_time(df_results, df_blanket).ok
          /\ df_blanket' = stop_work_time(df_results, df_blanket).df
    /\ pc' = "loop"
    /\ UNCHANGED <<year, sun_times, pass, row_in, row, applied, logged, evals, n, outcome>>
    /\ UNCHANGED <<fvars, ovars>>

\* stop_work_time raises KeyError (the series has no 'time' column, or the
\* window table no window columns); process_turbine catches it and returns True
StopWorkTimeRaises ==
    /\ pc = "stop_work_time"
    /\ \E df_results \in SeriesFrames(pass) : ~stop_work_time(df_results, df_blanket).ok
    /\ pc' = "done"
    /\ outcome' = "True"
    /\ UNCHANGED <<year, sun_times, df_blanket, pass, row_in, row, applied, logged, evals, n>>
    /\ UNCHANGED <<fvars, ovars>>

\* for _, row in df.iterrows(): the next row of the series, its time formatted
\* by stop_work_time and its blanket/smart columns initialised
NextRow ==
    /\ pc = "loop"
    /\ n < MaxRows
    /\ \E raw \in RawRows(year) :
         /\ row' = init_columns([raw EXCEPT !.time = format_time(raw.time)], WIND_SPEEDS)
         /\ row_in' = row'
    /\ applied' = FALSE
    /\ logged' = FALSE
    /\ evals' = 0
    /\ pc' = "row"
    /\ UNCHANGED <<year, sun_times, df_blanket, pass, n, outcome>>
    /\ UNCHANGED <<fvars, ovars>>

\* result = blanket.datework_row(row, start_date, end_date, year, wind_speeds, df_blanket)
DateworkRow ==
    /\ pc = "row"
    /\ evals < MaxEval
    /\ LET d == datework_row(row, blanket_start_date, blanket_end_date, year,
                             WIND_SPEEDS, df_blanket)
       IN  /\ row_in' = row
           /\ row' = d.row
           /\ applied' = d.applied
           /\ logged' = d.logged
    /\ evals' = evals + 1
    /\ UNCHANGED <<year, sun_times, df_blanket, pc, pass, n, outcome>>
    /\ UNCHANGED <<fvars, ovars>>

\* speed_results.append(result)
AppendResult ==
    /\ pc = "row"
    /\ evals >= 1
    /\ n' = n + 1
    /\ row' = NoRow
    /\ row_in' = NoRow
    /\ applied' = FALSE
    /\ logged' = FALSE
    /\ evals' = 0
    /\ pc' = "loop"
    /\ UNCHANGED <<year, sun_times, df_blanket, pass, outcome>>
    /\ UNCHANGED <<fvars, ovars>>

\* the forward series is exhausted: the air density, per_turbine_kw,
\* W_hub_backcalc and df_backcalc are computed without an exception; go on to
\* the back-calculated series
EndForward ==
    /\ pc = "loop"
    /\ pass = "forward"
    /\ \E inp \in BackcalcInputs : ~backcalc_raises(inp)
    /\ pass' = "backcalc"
    /\ n' = 0
    /\ pc' = "stop_work_time"
    /\ UNCHANGED <<year, sun_times, df_blanket, row_in, row, applied, logged, evals, outcome>>
    /\ UNCHANGED <<fvars, ovars>>

\* the forward series is exhausted, and a statement that prepares the
\* back-calculated series raises (KeyError for a column metdata lacks,
\* IndexError from calc_wind_speed_from_power on a curve array without a
\* second column): process_turbine catches it and returns True, the second
\* pass is not run
EndForwardRaises ==
    /\ pc = "loop"
    /\ pass = "forward"
    /\ \E inp \in BackcalcInputs : backcalc_raises(inp)
    /\ pc' = "done"
    /\ outcome' = "True"
    /\ UNCHANGED <<year, sun_times, df_blanket, pass, row_in, row, applied, logged, evals, n>>
    /\ UNCHANGED <<fvars, ovars>>

\* the back-calculated series is exhausted: write_data.write_backcalc is looked
\* up to write it.  Module write_data has no such attribute (AttributeError);
\* process_turbine catches the exception and returns True
EndBackcalc ==
    /\ pc = "loop"
    /\ pass = "backcalc"
    /\ pc' = "done"
    /\ outcome' = "True"
    /\ UNCHANGED <<year, sun_times, df_blanket, pass, row_in, row, applied, logged, evals, n>>
    /\ UNCHANGED <<fvars, ovars>>

Next ==
    \/ BlanketExtract
    \/ StopWorkTime
    \/ StopWorkTimeRaises
    \/ NextRow
    \/ DateworkRow
    \/ AppendResult
    \/ EndForward
    \/ EndForwardRaises
    \/ EndBackcalc

Spec == Init /\ [][Next]_vars


-----------------------------------------------------------------------------
(* power_output.get_power_output: the row loop *)

InitForward ==
    /\ year = 2020
    /\ sun_times = <<>>
    /\ df_blanket = NoFrame
    /\ pc = "idle"
    /\ pass = "forward"
    /\ row_in = NoRow
    /\ row = NoRow
    /\ applied = FALSE
    /\ logged = FALSE
    /\ evals = 0
    /\ n = 0
    /\ outcome = "none"
    /\ f_in \in ForwardCalls
    /\ f_i = 0
    /\ f_results = <<>>
    /\ f_pc = "loop"
    /\ LookupIdle /\ HubIdle /\ RunIdle

\* a variant of the loop body that skips a row whose hub-height extrapolation
\* raised (roughness None) instead of emitting it
ForwardRow_drops_failed_row ==
    /\ f_pc = "loop"
    /\ f_i < Len(f_in.temperature)
    /\ try_row(f_in, f_i + 1).ok
    /\ f_results' = IF f_in.surface_roughness[f_i + 1].k = "none"
                     THEN f_results
                     ELSE Append(f_results, try_row(f_in, f_i + 1).row)
    /\ f_i' = f_i + 1
    /\ UNCHANGED <<f_in, f_pc>>
    /\ UNCHANGED <<cvars, ovars>>

\* The loop body for row i + 1 appends a row.  When the try block runs through
\* its row is appended; when it raises, the except block appends the zero row.
\* The series of a call have one length, so every .iloc read of row
\* i + 1 <= len(temperature) succeeds, and the reads of metdata that fail in
\* the try block fail in the except block too.
ForwardRow ==
    /\ f_pc = "loop"
    /\ f_i < Len(f_in.temperature)
    /\ LET t == try_row(f_in, f_i + 1)
           e == fallback_row(f_in, f_i + 1)
       IN  /\ ~(~t.ok /\ ~e.ok)
           /\ f_results' = Append(f_results, IF t.ok THEN t.row ELSE e.row)
    /\ f_i' = f_i + 1
    /\ UNCHANGED <<f_in, f_pc>>
    /\ UNCHANGED <<cvars, ovars>>

\* row i + 1: the try block raises (KeyError for a column metdata lacks) and
\* the except block, which reads the same column, raises too; the exception
\* leaves the loop and the outer handler logs and re-raises it
ForwardRaise ==
    /\ f_pc = "loop"
    /\ f_i < Len(f_in.temperature)
    /\ ~try_row(f_in, f_i + 1).ok
    /\ ~fallback_row(f_in, f_i + 1).ok
    /\ f_pc' = "raised"
    /\ UNCHANGED <<f_in, f_i, f_results>>
    /\ UNCHANGED <<cvars, ovars>>

\* the loop is over: result_df = pd.DataFrame(results) is returned
ForwardReturn ==
    /\ f_pc = "loop"
    /\ f_i = Len(f_in.temperature)
    /\ f_pc' = "returned"
    /\ UNCHANGED <<f_in, f_i, f_results>>
    /\ UNCHANGED <<cvars, ovars>>

NextForward ==
    \/ ForwardRow
    \/ ForwardRaise
    \/ ForwardReturn

SpecForward == InitForward /\ [][NextForward]_vars

-----------------------------------------------------------------------------
(* The two lookups on a power curve: power_output.power_output and           *)
(* backward_calc.calc_wind_speed_from_power                                  *)

\* no curtailment pass and no get_power_output call is under way
CurtailIdle ==
    /\ year = 2020
    /\ sun_times = <<>>
    /\ df_blanket = NoFrame
    /\ pc = "idle"
    /\ pass = "forward"
    /\ row_in = NoRow
    /\ row = NoRow
    /\ applied = FALSE
    /\ logged = FALSE
    /\ evals = 0
    /\ n = 0
    /\ outcome = "none"

ForwardIdle ==
    /\ f_in = NoCall
    /\ f_i = 0
    /\ f_results = <<>>
    /\ f_pc = "idle"

InitCurve ==
    /\ p_site \in Sites
    /\ p_curve \in Curves
    /\ p_losses \in LossValues
    /\ p_v = NaN
    /\ p_fwd = NoLookup
    /\ p_series = <<>>
    /\ p_back = NoSeries
    /\ p_pc = "ready"
    /\ CurtailIdle /\ ForwardIdle /\ HubIdle /\ RunIdle

\* get_power_output for one row: air_density = RHO_STD;
\* power_out, adj_factor = power_output(wind_speed_hub, air_density, power_curve, losses)
LookupPower ==
    /\ p_pc = "ready"
    /\ \E v \in LookupWinds :
         /\ p_v' = v
         /\ p_fwd' = power_output(v, forward_air_density(p_site.temperature), p_curve,
                                  p_losses)
    /\ p_pc' = "forward"
    /\ UNCHANGED <<p_curve, p_losses, p_series, p_back, p_site>>
    /\ UNCHANGED <<cvars, fvars, hvars, rvars>>

\* the power just estimated is handed back to calc_wind_speed_from_power, as
\* a series of one cell, with the same curve and losses
LookupWindSpeedOfPower ==
    /\ p_pc = "forward"
    /\ p_series' = <<[index |-> 0, value |-> p_fwd.power]>>
    /\ p_back' = calc_wind_speed_from_power(p_series', p_curve, p_site.air_density, p_losses)
    /\ p_pc' = "roundtrip"
    /\ UNCHANGED <<p_curve, p_losses, p_v, p_fwd, p_site>>
    /\ UNCHANGED <<cvars, fvars, hvars, rvars>>

\* W_hub_backcalc = calc_wind_speed_from_power(per_turbine_kw, power_curve,
\* air_density, losses)
CalcWindSpeedFromPower ==
    /\ p_pc = "ready"
    /\ \E P_T_series \in PowerSeries :
         /\ p_series' = P_T_series
         /\ p_back' = calc_wind_speed_from_power(P_T_series, p_curve, p_site.air_density,
                                                 p_losses)
    /\ p_pc' = "inverse"
    /\ UNCHANGED <<p_curve, p_losses, p_v, p_fwd, p_site>>
    /\ UNCHANGED <<cvars, fvars, hvars, rvars>>

NextCurve ==
    \/ LookupPower
    \/ LookupWindSpeedOfPower
    \/ CalcWindSpeedFromPower

SpecCurve == InitCurve /\ [][NextCurve]_vars

-----------------------------------------------------------------------------
(* power_output.wind_speed_at_hub_height *)

InitHub ==
    /\ h_in \in HubCalls
    /\ h_out = NaN
    /\ h_pc = "ready"
    /\ CurtailIdle /\ ForwardIdle /\ LookupIdle /\ RunIdle

\* wind_speed_hub = wind_speed_at_hub_height(wind_speed, hub_height,
\* surface_roughness, ref_height)
WindSpeedAtHubHeight ==
    /\ h_pc = "ready"
    /\ h_out' = wind_speed_at_hub_height(h_in.wind_speed, h_in.hub_height,
                                         h_in.surface_roughness, h_in.ref_height)
    /\ h_pc' = "done"
    /\ UNCHANGED h_in
    /\ UNCHANGED <<cvars, fvars, pvars, rvars>>

NextHub == WindSpeedAtHubHeight

SpecHub == InitHub /\ [][NextHub]_vars

-----------------------------------------------------------------------------
(* WindTurbineProcessor.run and the set-up steps of process_turbine *)

\* the steps of process_turbine that come before its call of
\* input.read_real_power_data, in order
SetupSteps == <<"find_input_file", "find_real_data_file", "read_data">>

\* what makes a step raise: FileNotFoundError from find_input_file,
\* find_real_data_file and read_data (curve file), ValueError from read_data
\* (no row of the configuration matches the turbine)
RaisedBy(step) ==
    CASE step = "load_turbine_data" -> {"index not in configuration"}
      [] step = "find_input_file" -> {"no input file"}
      [] step = "find_real_data_file" -> {"no real data file"}
      [] step = "read_data" -> {"turbine not in configuration", "no power curve file"}
      [] OTHER -> {}

StepAfter(step) ==
    LET i == CHOOSE j \in 1..Len(SetupSteps) : SetupSteps[j] = step
    IN  IF i < Len(SetupSteps) THEN SetupSteps[i + 1] ELSE "read_real_power_data"

InitRun ==
    /\ r_env \in SUBSET Faults
    /\ r_pc = "load_turbine_data"
    /\ r_failed = "none"
    /\ r_result = "none"
    /\ r_continue = "none"
    /\ CurtailIdle /\ ForwardIdle /\ LookupIdle /\ HubIdle

\* run: load_turbine_data returns the names; process_turbine is entered
LoadTurbineData ==
    /\ r_pc = "load_turbine_data"
    /\ RaisedBy(r_pc) \cap r_env = {}
    /\ r_pc' = SetupSteps[1]
    /\ UNCHANGED <<r_env, r_failed, r_result, r_continue>>
    /\ UNCHANGED <<cvars, fvars, pvars, hvars>>

\* run: load_turbine_data logs and re-raises; the handler of run logs the
\* fatal error and re-raises to the caller
LoadTurbineDataRaises ==
    /\ r_pc = "load_turbine_data"
    /\ RaisedBy(r_pc) \cap r_env # {}
    /\ r_failed' = r_pc
    /\ r_pc' = "done"
    /\ r_result' = "raised"
    /\ UNCHANGED <<r_env, r_continue>>
    /\ UNCHANGED <<cvars, fvars, pvars, hvars>>

\* process_turbine: a set-up step runs through
SetupStep ==
    /\ \E i \in 1..Len(SetupSteps) : r_pc = SetupSteps[i]
    /\ RaisedBy(r_pc) \cap r_env = {}
    /\ r_pc' = StepAfter(r_pc)
    /\ UNCHANGED <<r_env, r_failed, r_result, r_continue>>
    /\ UNCHANGED <<cvars, fvars, pvars, hvars>>

\* process_turbine: a set-up step raises; `except Exception` logs it and
\* returns True; run logs a warning and returns
SetupStepRaises ==
    /\ \E i \in 1..Len(SetupSteps) : r_pc = SetupSteps[i]
    /\ RaisedBy(r_pc) \cap r_env # {}
    /\ r_failed' = r_pc
    /\ r_pc' = "done"
    /\ r_result' = "returned"
    /\ r_continue' = "True"
    /\ UNCHANGED r_env
    /\ UNCHANGED <<cvars, fvars, pvars, hvars>>

\* process_turbine: real_df = input.read_real_power_data(...).  Module input
\* defines read_file, read_data and read_sun_time but no read_real_power_data:
\* the attribute lookup raises AttributeError whatever the inputs are, `except
\* Exception` logs it and returns True; run logs a warning and returns.  The
\* statements after it (the merge, the forward estimate, read_sun_time, the
\* curtailment passes, the writes) are not reached from run.
ReadRealPowerData ==
    /\ r_pc = "read_real_power_data"
    /\ r_failed' = r_pc
    /\ r_pc' = "done"
    /\ r_result' = "returned"
    /\ r_continue' = "True"
    /\ UNCHANGED r_env
    /\ UNCHANGED <<cvars, fvars, pvars, hvars>>

NextRun ==
    \/ LoadTurbineData
    \/ LoadTurbineDataRaises
    \/ SetupStep
    \/ SetupStepRaises
    \/ ReadRealPowerData

SpecRun == InitRun /\ [][NextRun]_vars

-----------------------------------------------------------------------------
(* Vocabulary of the properties, stated over the inputs (the sun table and   *)
(* the row passed in), not over the window table the code derives.           *)

\* datework_row has returned: row_in is the row it was given, row its result
Evaluated == pc = "row" /\ evals >= 1

SeasonStart == to_datetime(year, blanket_start_date)
SeasonEnd == to_datetime(year, blanket_end_date)

InSeason(t) == t.k = "ts" /\ SeasonStart <= t.v /\ t.v <= SeasonEnd

\* the sun rows of the calendar date of timestamp t, in table order
SunRowsOn(t) == {i \in 1..Len(sun_times) : sun_times[i].date = date(t.v) * Day}
HasWindow(t) == t.k = "ts" /\ SunRowsOn(t) # {}
FirstSunRow(t) == sun_times[CHOOSE i \in SunRowsOn(t) : \A j \in SunRowsOn(t) : i <= j]

\* restrictedStart = sunrise + 1h, restrictedEnd = sunset - 1h on the date of t
RestrictedStart(t) == FirstSunRow(t).date + FirstSunRow(t).rise + Hour
RestrictedEnd(t) == FirstSunRow(t).date + FirstSunRow(t).set - Hour

InRestrictedPeriod(t) == t.v <= RestrictedStart(t) \/ t.v >= RestrictedEnd(t)

\* the row passed in is in the season, has a window and is in the restricted period
RulesApply == InSeason(row_in.time) /\ HasWindow(row_in.time) /\ InRestrictedPeriod(row_in.time)

WindAtMost(r, T) == r.W_hub.k = "num" /\ r.W_hub.v <= T
Warm(r) == r.temp.k = "num" /\ r.temp.v > TempLimit
Dry(r) == r.precip.k = "num" /\ r.precip.v < PrecipLimit

\* no blanket or smart column differs between the row passed in and the result
ColumnsUnchanged == \A T \in Thresholds : row.blanket[T] = row_in.blanket[T]
                                          /\ row.smart[T] = row_in.smart[T]

\* the least configured threshold the wind speed of r does not exceed
LeastThreshold(r) == CHOOSE T \in Thresholds :
                        WindAtMost(r, T) /\ \A U \in Thresholds : WindAtMost(r, U) => T <= U

\* The threshold rules as win_speed_work carries them out on the row passed in:
\* the row comes back as the loop leaves it, and if its wind speed is at most
\* some threshold, the blanket column of the least such threshold is 0; when
\* temperature and precipitation are numbers or missing, so is the blanket
\* column of every threshold the wind speed does not exceed.
RulesCarriedOut ==
    /\ applied
    /\ row = win_speed_work(row_in, WIND_SPEEDS).row
    /\ (\E T \in Thresholds : WindAtMost(row_in, T))
          => row.blanket[LeastThreshold(row_in)] = Num(0)
    /\ (row_in.temp.k # "bad" /\ row_in.precip.k # "bad")
          => \A T \in Thresholds : WindAtMost(row_in, T) => row.blanket[T] = Num(0)

-----------------------------------------------------------------------------
(* Properties of the curtailment engine *)

\* C1 (as claimed): for every row evaluated inside the season, with a window
\* for its date and in the restricted period, and every threshold T, blanket_T
\* is 0 if and only if W_hub is not missing and W_hub <= T, and otherwise still
\* holds the row's power_out.
C1_BlanketRule ==
    (Evaluated /\ RulesApply) =>
        \A T \in Thresholds :
            row.blanket[T] = IF WindAtMost(row_in, T) THEN Num(0) ELSE row_in.power_out

\* C2: for every row in the restricted period and every threshold T, smart_T
\* is 0 if and only if W_hub is not missing, W_hub <= T, temp > 9.5 and
\* precip < 1, and otherwise still holds power_out; a row with W_hub <= T and
\* a temperature of at most 9.5 keeps smart_T while blanket_T is 0.
C2_SmartRule ==
    (Evaluated /\ RulesApply) =>
        \A T \in Thresholds :
            /\ row.smart[T] = IF WindAtMost(row_in, T) /\ Warm(row_in) /\ Dry(row_in)
                              THEN Num(0) ELSE row_in.power_out
            /\ (WindAtMost(row_in, T) /\ row_in.temp.k = "num" /\ ~Warm(row_in))
                  => (row.blanket[T] = Num(0) /\ row.smart[T] = row_in.power_out)

C2_Witness ==
    /\ Evaluated /\ RulesApply
    /\ row_in.W_hub = Num(40) /\ row_in.temp = Num(95) /\ row_in.precip = Num(0)
    /\ row_in.power_out = Num(1000)
    /\ row.blanket[50] = Num(0) /\ row.smart[50] = Num(1000)

\* C3: for an in-season row whose date has a window, the threshold rules are
\* applied if and only if timestamp <= restrictedStart or timestamp >=
\* restrictedEnd (both inclusive); a row strictly between the two bounds is
\* returned with every column unchanged whatever its wind speed.
C3_RestrictedPeriod ==
    (Evaluated /\ InSeason(row_in.time) /\ HasWindow(row_in.time)) =>
        /\ applied <=> InRestrictedPeriod(row_in.time)
        /\ InRestrictedPeriod(row_in.time) => RulesCarriedOut
        /\ ~InRestrictedPeriod(row_in.time) => row = row_in

C3_Witness ==
    /\ Evaluated /\ evals = 1
    /\ row_in.time = Stamp(TS(year, 8, 1, 12, 0, 0))
    /\ HasWindow(row_in.time)
    /\ RestrictedStart(row_in.time) = TS(year, 8, 1, 7, 0, 0)
    /\ RestrictedEnd(row_in.time) = TS(year, 8, 1, 19, 0, 0)
    /\ row_in.W_hub = Num(40) /\ row_in.power_out = Num(1000)
    /\ row = row_in

\* C4: a row whose timestamp is outside [seasonStart, seasonEnd] of the
\* processing year (one second before seasonStart, another year) comes back
\* with every blanket_T and smart_T unchanged whatever its wind speed; a row
\* at exactly seasonStart whose date has a window has the threshold rules
\* carried out on it.
C4_SeasonEligibility ==
    Evaluated =>
        /\ ~InSeason(row_in.time) => (ColumnsUnchanged /\ ~applied)
        /\ (row_in.time = Stamp(SeasonStart) /\ HasWindow(row_in.time)) => RulesCarriedOut

C4_Witness ==
    /\ Evaluated /\ evals = 1
    /\ row_in.time = Stamp(SeasonStart)
    /\ row_in.W_hub = Num(50) /\ row_in.power_out = Num(1000)
    /\ row.blanket[50] = Num(0) /\ row.blanket[80] = Num(0)

\* C5: a row whose W_hub is missing is never curtailed: for every threshold
\* both blanket_T and smart_T still equal their initial value (power_out),
\* whatever the timestamp, temperature and precipitation.
C5_MissingWindNeverCurtailed ==
    (Evaluated /\ row_in.W_hub.k = "nan") =>
        \A T \in Thresholds : row.blanket[T] = row_in.power_out
                              /\ row.smart[T] = row_in.power_out

C5_Witness ==
    /\ Evaluated /\ RulesApply /\ applied
    /\ row_in.W_hub = NaN /\ row_in.temp = Num(100) /\ row_in.precip = Num(0)
    /\ row_in.power_out = Num(1000)
    /\ row.blanket[80] = Num(1000)

\* C6 (as claimed): for any two thresholds T1 < T2, if blanket_T1 has been
\* zeroed then blanket_T2 has been zeroed too, for every row datework_row
\* returns, also when the evaluation of a threshold fails part-way.
C6_ThresholdMonotone ==
    Evaluated =>
        \A T1, T2 \in Thresholds :
            (T1 < T2 /\ row.blanket[T1] = Num(0)) => row.blanket[T2] = Num(0)

\* C7: datework_row only writes the blanket_T and smart_T columns: power_out,
\* W_hub, time, temp and precip of the row returned equal those of the row
\* passed in, in every evaluation of every sequence of evaluations.
C7_OnlyThresholdColumnsWritten ==
    Evaluated =>
        /\ row.power_out = row_in.power_out
        /\ row.W_hub = row_in.W_hub
        /\ row.time = row_in.time
        /\ row.temp = row_in.temp
        /\ row.precip = row_in.precip

C7_Witness ==
    /\ Evaluated /\ evals = 2 /\ applied
    /\ row.power_out = Num(1000) /\ row.W_hub = Num(40)
    /\ row.blanket[50] = Num(0) /\ row.smart[50] = Num(0)

\* C8 (as claimed): on a day whose window has restrictedStart >= restrictedEnd
\* no timestamp is curtailed under any threshold, and no error is raised.
C8_ShortDayNotCurtailed ==
    (Evaluated /\ InSeason(row_in.time) /\ HasWindow(row_in.time)
       /\ RestrictedStart(row_in.time) >= RestrictedEnd(row_in.time)) =>
        (ColumnsUnchanged /\ outcome = "none")

\* C8 (amended): on a day whose window has restrictedStart >= restrictedEnd
\* every in-season timestamp of the day lies in the restricted period: the
\* threshold rules are carried out on every such row, and no error is raised.
C8_ShortDayWhollyRestricted ==
    (Evaluated /\ InSeason(row_in.time) /\ HasWindow(row_in.time)
       /\ RestrictedStart(row_in.time) >= RestrictedEnd(row_in.time)) =>
        (RulesCarriedOut /\ outcome = "none")

C8_Witness ==
    /\ Evaluated /\ evals = 1
    /\ row_in.time = Stamp(TS(year, 8, 1, 11, 45, 0))
    /\ HasWindow(row_in.time)
    /\ RestrictedStart(row_in.time) = TS(year, 8, 1, 12, 0, 0)
    /\ RestrictedEnd(row_in.time) = TS(year, 8, 1, 11, 30, 0)
    /\ row_in.W_hub = Num(40) /\ row_in.power_out = Num(1000)
    /\ row.blanket[50] = Num(0)

\* C9: an in-season row whose calendar date has no entry in the window table
\* is returned unchanged and without an exception (none raised, none caught),
\* whatever its wind speed, temperature and precipitation.
C9_NoWindowUnchanged ==
    (Evaluated /\ InSeason(row_in.time) /\ ~HasWindow(row_in.time)) =>
        (row = row_in /\ ~applied /\ ~logged /\ outcome = "none")

C9_Witness ==
    /\ Evaluated /\ evals = 1
    /\ row_in.time = Stamp(TS(year, 8, 1, 6, 30, 0))
    /\ ~HasWindow(row_in.time)
    /\ row_in.W_hub = Num(40) /\ row_in.temp = Bad /\ row_in.power_out = Num(1000)
    /\ row = row_in


-----------------------------------------------------------------------------
(* Properties of the forward estimator *)

\* C10 (as claimed): get_power_output produces exactly one output row per
\* input row, in input order, for every input series of length N, whichever
\* rows fail during computation: a failure confined to one row never aborts
\* the series (the call does not raise) and never drops or duplicates a row.
C10_OneRowPerInputRow ==
    /\ f_pc # "raised"
    /\ f_pc \in {"loop", "returned"} =>
          /\ Len(f_results) = f_i
          /\ \A i \in 1..Len(f_results) :
                /\ f_results[i].temp = f_in.temperature[i]
                /\ f_results[i].time = f_in.metdata.time[i]
    /\ f_pc = "returned" => Len(f_results) = Len(f_in.temperature)

\* the frame passed as metdata has the columns get_power_output reads
FullFrame == ForwardColumns \subseteq f_in.metdata.columns

\* C10 (amended): when metdata has the columns 'Date/Time (LST)' and
\* 'Precip. Amount (mm)', get_power_output does not raise and produces exactly
\* one output row per input row, in input order, whichever rows fail during
\* computation.  When metdata lacks a column and the series are not empty, the
\* call emits no row and never returns a frame: it raises at the first row.
C10_OneRowPerInputRowOfFullFrame ==
    /\ FullFrame =>
          /\ f_pc # "raised"
          /\ f_pc \in {"loop", "returned"} =>
                /\ Len(f_results) = f_i
                /\ \A i \in 1..Len(f_results) :
                      /\ f_results[i].temp = f_in.temperature[i]
                      /\ f_results[i].time = f_in.metdata.time[i]
          /\ f_pc = "returned" => Len(f_results) = Len(f_in.temperature)
    /\ (f_pc \in {"loop", "returned", "raised"} /\ ~FullFrame
            /\ Len(f_in.temperature) > 0) =>
          (f_results = <<>> /\ f_pc # "returned")

\* a two-row call on a full frame has returned; the hub-height extrapolation
\* of its first row raised (roughness None), that of its second row did not
C10_Witness ==
    /\ f_pc = "returned"
    /\ FullFrame
    /\ Len(f_results) = 2
    /\ f_in.surface_roughness[1].k = "none"
    /\ f_in.surface_roughness[2].k # "none"

\* A step of the computation of input row i raised an exception: one of the
\* reads of the try block, the hub-height extrapolation (a roughness of None
\* cannot be compared with 0) or the power-curve lookup (the curve array has
\* no second axis).
RowStepRaised(inp, i) ==
    \/ ~try_row(inp, i).ok
    \/ inp.surface_roughness[i].k = "none"
    \/ inp.power_curve.ndim # 2

\* C11 (as claimed): whenever a step of a row's computation fails with an
\* exception (hub-height extrapolation, density adjustment or power-curve
\* lookup), the row emitted has W_hub = 0 and power_out = 0 together.
C11_FailedRowIsZeroRow ==
    \A i \in 1..Len(f_results) :
        RowStepRaised(f_in, i) =>
            (f_results[i].W_hub = Num(0) /\ f_results[i].power_out = Num(0))

-----------------------------------------------------------------------------
(* Properties of the power-curve lookups *)

\* the curve array has the two columns both lookups read
WellFormed == p_curve.ndim = 2 /\ p_curve.cols >= 2

\* the samples ordered by wind speed, and the sample domain
SamplesByWind == sort_by_wind(p_curve.pts)
MinWind == SamplesByWind[1][1]
MaxWind == SamplesByWind[Len(SamplesByWind)][1]
InDomain(v) == v.k = "num" /\ MinWind <= v.v /\ v.v <= MaxWind

Abs(x) == IF x < 0 THEN -x ELSE x

\* samples j and j + 1 bracket the wind speed v, and p is within two units
\* (0.2 kW, the two roundings) of the line through them times (1 - losses):
\* both sides are multiplied by the width of the bracket and by 100
OnLine(j, v, p) ==
    LET lo == SamplesByWind[j]
        hi == SamplesByWind[j + 1]
        dx == hi[1] - lo[1]
    IN  /\ lo[1] <= v /\ v <= hi[1] /\ dx > 0
        /\ Abs(p * dx * 100 - (lo[2] * dx + (hi[2] - lo[2]) * (v - lo[1])) * (100 - p_losses))
               < 2 * dx * 100

\* C12: for a wind speed inside the sample domain power_output returns the
\* linear interpolation between the two bracketing samples multiplied by
\* (1 - losses); on the curve {(0,0),(3,0),(12,1000),(25,1000),(25.01,0)} with
\* losses 0 the power at 6 m/s is 1000*(6-3)/(12-3), to within 0.1 kW.
C12_LinearInterpolation ==
    (p_pc = "forward" /\ WellFormed /\ InDomain(p_v)) =>
        /\ p_fwd.power.k = "num"
        /\ \E j \in 1..(Len(SamplesByWind) - 1) : OnLine(j, p_v.v, p_fwd.power.v)
        /\ (p_curve = ScenarioCurve /\ p_losses = 0 /\ p_v = Num(600)) =>
              Abs(p_fwd.power.v * (1200 - 300) - 10000 * (600 - 300)) < 1200 - 300

C12_Witness ==
    /\ p_pc = "forward" /\ p_curve = ScenarioCurve /\ p_losses = 0
    /\ p_v = Num(600) /\ p_fwd.power = Num(3333)

\* C13 (as claimed): for every finite wind speed and every curve the pipeline
\* accepts, power_output returns a power (it does not raise), the power is
\* never negative, and it is 0 for a wind speed below the smallest or above
\* the largest sample wind speed.
C13_LookupNeverNegative ==
    (p_pc = "forward" /\ p_v.k = "num") =>
        /\ p_fwd.power.k = "num"
        /\ p_fwd.power.v >= 0
        /\ (WellFormed /\ ~InDomain(p_v)) => p_fwd.power = Num(0)

\* v lies strictly inside a segment of the curve that is not flat and on
\* which the power strictly increases
InRisingSegment(v) ==
    \E j \in 1..(Len(SamplesByWind) - 1) :
        /\ SamplesByWind[j][1] < v.v /\ v.v < SamplesByWind[j + 1][1]
        /\ SamplesByWind[j][2] < SamplesByWind[j + 1][2]

\* C14 (as claimed): for any curve and any wind speed v strictly inside a
\* non-flat, strictly increasing segment, with losses 0 and density factor 1,
\* the inverse lookup of the forward result gives v back, to within 0.02 m/s.
C14_RoundTrip ==
    (p_pc = "roundtrip" /\ WellFormed /\ p_losses = 0 /\ p_v.k = "num"
       /\ InRisingSegment(p_v)) =>
        /\ p_back.ok
        /\ p_back.series[1].value.k = "num"
        /\ Abs(p_back.series[1].value.v - p_v.v) <= 2

\* C15 (as claimed): on the curve {(0,0),(3,0),(12,1000),(25,1000),(25.01,0)}
\* with losses 0, calc_wind_speed_from_power returns 9.0 m/s (to within
\* 0.01 m/s) wherever the observed power is 500 kW.
C15_ScenarioInverse ==
    (p_pc = "inverse" /\ p_curve = ScenarioCurve /\ p_losses = 0) =>
        \A i \in 1..Len(p_series) :
            p_series[i].value = Num(5000) =>
                /\ p_back.ok
                /\ p_back.series[i].value.k = "num"
                /\ Abs(p_back.series[i].value.v - 900) <= 1

\* the least and the greatest power among the samples of the curve
PowerSamples == {p_curve.pts[i][2] : i \in 1..Len(p_curve.pts)}
MinPower == CHOOSE m \in PowerSamples : \A q \in PowerSamples : m <= q
MaxPower == CHOOSE m \in PowerSamples : \A q \in PowerSamples : m >= q

\* C16: calc_wind_speed_from_power does not raise on a corrected power outside
\* the achievable range; the value at a position whose corrected power is
\* strictly below the least or strictly above the greatest power of the curve
\* is NaN, and the value at a position whose corrected power lies within
\* [min power, max power] is a wind speed, not NaN.
C16_OutOfRangeIsMissing ==
    (p_pc = "inverse" /\ WellFormed) =>
        /\ p_back.ok
        /\ Len(p_back.series) = Len(p_series)
        /\ \A i \in 1..Len(p_series) :
              LET c == P_corr(p_series[i].value, p_losses, RHO_STD)
              IN  /\ (c.k = "num" /\ (c.v < MinPower \/ c.v > MaxPower))
                        => p_back.series[i].value = NaN
                  /\ (c.k = "num" /\ MinPower <= c.v /\ c.v <= MaxPower)
                        => p_back.series[i].value.k = "num"

C16_Witness ==
    /\ p_pc = "inverse" /\ p_curve = ScenarioCurve /\ p_losses = 0
    /\ Len(p_series) = 2
    /\ p_series[1].value = Num(15000) /\ p_back.series[1].value = NaN
    /\ p_series[2].value = Num(10000) /\ p_back.series[2].value = Num(1200)

\* C17: calc_wind_speed_from_power returns exactly one value per input value,
\* under the same index labels in the same order, and the value at position i
\* is determined by the input value at position i, the curve and the losses.
C17_IndexAligned ==
    (p_pc = "inverse" /\ p_back.ok) =>
        /\ Len(p_back.series) = Len(p_series)
        /\ \A i \in 1..Len(p_series) :
              /\ p_back.series[i].index = p_series[i].index
              /\ p_back.series[i].value =
                     inverse_interp(inverse_power_curve(p_curve),
                                    P_corr(p_series[i].value, p_losses, RHO_STD))

C17_Witness ==
    /\ p_pc = "inverse" /\ p_curve = RisingCurve /\ p_losses = 0
    /\ Len(p_series) = 2
    /\ p_series[1] = [index |-> 9, value |-> Num(15000)]
    /\ p_series[2] = [index |-> 8, value |-> Num(0)]
    /\ p_back.series = <<[index |-> 9, value |-> NaN], [index |-> 8, value |-> Num(300)]>>

-----------------------------------------------------------------------------
(* Properties of the hub-height extrapolation *)

\* the roughness the profile formula works with: 0.1 m in place of a value <= 0
UsedRoughness ==
    IF h_in.surface_roughness.k = "nonpos" THEN -1 ELSE h_in.surface_roughness.e

\* C18 (as claimed): for finite arguments wind_speed_at_hub_height returns a
\* finite number, never NaN or +/-Inf (and does not raise), also when the
\* reference height equals the roughness, substituted or not; when the hub
\* height is at most the roughness it returns the reference speed unchanged.
C18_HubSpeedFinite ==
    h_pc = "done" =>
        /\ h_out.k = "num"
        /\ h_in.hub_height <= UsedRoughness => h_out = h_in.wind_speed

-----------------------------------------------------------------------------
(* Properties of WindTurbineProcessor.run *)

\* C19 (as claimed): when a set-up step of the processing of a turbine fails
\* (input or real-data file not found, power-curve file absent, required
\* column absent, turbine not found in the configuration, no sun data for the
\* turbine), run does not return normally: the failure reaches its caller.
C19_SetupFailurePropagates ==
    r_failed # "none" => r_result # "returned"

-----------------------------------------------------------------------------
(* Idempotence of the curtailment evaluation *)

\* C20: datework_row applied to the row it returned (same season, year,
\* thresholds and window table) returns that row again, and what it returns
\* for a row is a function of the row, the season, the year, the thresholds
\* and the window table.
C20_Idempotent ==
    Evaluated =>
        /\ row = datework_row(row_in, blanket_start_date, blanket_end_date, year,
                              WIND_SPEEDS, df_blanket).row
        /\ evals >= 2 => row = row_in

C20_Witness ==
    /\ Evaluated /\ evals = 2 /\ applied
    /\ row_in.W_hub = Num(62) /\ row_in.temp = Num(100) /\ row_in.precip = Num(0)
    /\ row_in.power_out = Num(1000)
    /\ row.blanket[60] = Num(1000) /\ row.blanket[65] = Num(0) /\ row.smart[80] = Num(0)
    /\ row = row_in

\* the thresholds of a list taken in the opposite order
Reversed(speed) == [i \in 1..Len(speed) |-> speed[Len(speed) + 1 - i]]

\* C21 (as claimed): the result a threshold T gets for a row is the same
\* whatever other thresholds the list holds and in whatever order: the
\* blanket_T and smart_T cells win_speed_work leaves are those it leaves when T
\* is the only threshold of the list, and the row it returns is the one it
\* returns for the list taken in the opposite order, also when the evaluation
\* of another threshold fails.
C21_ThresholdsIndependent ==
    (Evaluated /\ applied) =>
        /\ \A T \in Thresholds :
             LET alone == win_speed_work(row_in, <<T>>).row
             IN  row.blanket[T] = alone.blanket[T] /\ row.smart[T] = alone.smart[T]
        /\ row = win_speed_work(row_in, Reversed(WIND_SPEEDS)).row

\* the sun rows whose date is in the season of the processing year, in the
\* order of the sun table
SeasonSunRows ==
    LET Within(r) == SeasonStart <= r.date /\ r.date <= SeasonEnd
    IN  SelectSeq(sun_times, Within)

\* C22: blanket_extract yields one window per sun row whose date is in
\* [seasonStart, seasonEnd] of the processing year and none for any other
\* date; the window's restrictedStart is sunrise + 1h and its restrictedEnd
\* sunset - 1h on that date.
C22_WindowDerivation ==
    pc \in {"stop_work_time", "loop", "row"} =>
        /\ Len(df_blanket.rows) = Len(SeasonSunRows)
        /\ \A i \in 1..Len(SeasonSunRows) :
             LET s == SeasonSunRows[i]
                 w == df_blanket.rows[i]
             IN  /\ w.one_hour_after_rise = s.date + s.rise + Hour
                 /\ w.one_hour_before_set = s.date + s.set - Hour
                 /\ IF df_blanket.dates = "datetime"
                    THEN w.date = s.date
                    ELSE w.date * Day = s.date

\* a table of five sun rows, three of them in the season, each with sunrise
\* 06:00 and sunset 20:00: three windows, from 07:00 to 19:00
C22_Witness ==
    /\ pc = "stop_work_time" /\ pass = "forward"
    /\ Len(sun_times) = 5
    /\ Len(df_blanket.rows) = 3
    /\ \A i \in 1..3 :
         /\ df_blanket.rows[i].one_hour_after_rise = df_blanket.rows[i].date + 7 * Hour
         /\ df_blanket.rows[i].one_hour_before_set = df_blanket.rows[i].date + 19 * Hour
         /\ InSeason(Stamp(df_blanket.rows[i].date))

\* the lowest wind speed among the samples of the curve whose power is p
LowestWindAt(p) ==
    LET winds == {p_curve.pts[i][1] : i \in {j \in 1..Len(p_curve.pts) : p_curve.pts[j][2] = p}}
    IN  CHOOSE w \in winds : \A u \in winds : w <= u

\* C23 (as claimed): where two or more samples of the curve share a power
\* value, the sample the inverse lookup keeps for that power is the one with
\* the lowest wind speed among them, wherever it stands in the file: the
\* deduplicated samples pair each power with that wind speed, and a corrected
\* power equal to a sample power is looked up as that wind speed.
C23_LowestWindRetained ==
    (p_pc = "inverse" /\ WellFormed) =>
        /\ \A k \in 1..Len(inverse_power_curve(p_curve)) :
              inverse_power_curve(p_curve)[k][2] =
                  LowestWindAt(inverse_power_curve(p_curve)[k][1])
        /\ \A i \in 1..Len(p_series) :
              LET c == P_corr(p_series[i].value, p_losses, RHO_STD)
              IN  (c.k = "num" /\ c.v \in PowerSamples) =>
                      p_back.series[i].value = Num(LowestWindAt(c.v))

\* C24: the density correction applied to the power-curve query is exactly 1 in
\* both directions: the forward lookup returns the factor 1 and the power it
\* returns for any other temperature of the site, and the inverse lookup
\* returns for every row the wind speed it returns for any other air_density
\* argument.
C24_DensityFactorIsOne ==
    /\ p_pc = "forward" =>
          /\ p_fwd.factor = 1
          /\ \A t \in SiteTemperatures :
                power_output(p_v, forward_air_density(t), p_curve, p_losses) = p_fwd
    /\ p_pc = "inverse" =>
          \A d \in SiteDensities :
              calc_wind_speed_from_power(p_series, p_curve, d, p_losses) = p_back

\* a site whose air density is eight times the standard one: the wind speed
\* implied by 500 kW on the rising curve is the one of the standard density,
\* 3 + 9 * 500 / 900 = 8.0 m/s
C24_Witness ==
    /\ p_pc = "inverse" /\ p_curve = RisingCurve /\ p_losses = 0
    /\ p_site.air_density = 8 * RHO_STD
    /\ Len(p_series) = 1 /\ p_series[1].value = Num(5000)
    /\ p_back.ok /\ p_back.series[1].value = Num(800)

\* C25: for a surface roughness r <= 0, wind_speed_at_hub_height returns what
\* it returns for the roughness 0.1 with the same speed and heights, that is
\* v * ln(hub / 0.1) / ln(ref / 0.1) when the hub is above 0.1 m (and the
\* quotient is defined); it returns a value and does not raise.
C25_RoughnessSubstitution ==
    (h_pc = "done" /\ h_in.surface_roughness.k = "nonpos") =>
        /\ h_out = wind_speed_at_hub_height(h_in.wind_speed, h_in.hub_height, Rough(-1),
                                            h_in.ref_height)
        /\ (h_in.hub_height > -1 /\ h_in.ref_height # -1) =>
              h_out = Num((h_in.wind_speed.v * (h_in.hub_height + 1))
                              \div (h_in.ref_height + 1))

\* 8.0 m/s at 10 m over a roughness <= 0, hub at 100 m: 8 * ln(1000) / ln(100)
C25_Witness ==
    /\ h_pc = "done" /\ h_in.surface_roughness.k = "nonpos"
    /\ h_in.wind_speed = Num(80) /\ h_in.hub_height = 2 /\ h_in.ref_height = 1
    /\ h_out = Num(120)

\* C26 (as claimed): when the sun table holds no date inside the season of the
\* processing year, blanket_extract, stop_work_time and datework_row over all
\* rows complete without raising: stop_work_time, given a series that has its
\* columns, does not raise on the frame blanket_extract returned, and every
\* row evaluated is left uncurtailed.
C26_NoSeasonSunDataTolerated ==
    SeasonSunRows = <<>> =>
        /\ pc = "stop_work_time" => stop_work_time(SeriesFrame, df_blanket).ok
        /\ Evaluated => (row = row_in /\ ~logged)

\* C27: smart curtailment is contained in blanket curtailment: in every row of
\* either series, initialised and evaluated any number of times, a smart_T
\* cell that is 0 stands beside a blanket_T cell that is 0, and an evaluation
\* that zeroes smart_T leaves blanket_T at 0.
C27_SmartWithinBlanket ==
    pc = "row" =>
        \A T \in Thresholds :
            /\ row.smart[T] = Num(0) => row.blanket[T] = Num(0)
            /\ (row.smart[T] = Num(0) /\ row_in.smart[T] # Num(0)) => applied

\* a warm, dry row with W_hub equal to the threshold 5.0: the evaluation zeroes
\* smart_5.0 and blanket_5.0 together
C27_Witness ==
    /\ Evaluated /\ evals = 1 /\ applied
    /\ row_in.W_hub = Num(50) /\ row_in.temp = Num(100) /\ row_in.precip = Num(0)
    /\ row_in.smart[50] = Num(1000) /\ row_in.blanket[50] = Num(1000)
    /\ row.smart[50] = Num(0) /\ row.blanket[50] = Num(0)

\* C28: after initialisation and any number of evaluations, every blanket_T and
\* smart_T cell of every row of the forward and of the back-calculated series
\* is 0 or the row's power_out; no other value is ever written.
C28_ZeroOrPowerOut ==
    pc = "row" =>
        \A T \in Thresholds :
            /\ row.blanket[T] \in {Num(0), row.power_out}
            /\ row.smart[T] \in {Num(0), row.power_out}

\* a row of the back-calculated series evaluated twice with W_hub = 6.2:
\* the cells of the thresholds below it hold the power, the others 0
C28_Witness ==
    /\ Evaluated /\ evals = 2 /\ pass = "backcalc"
    /\ row.W_hub = Num(62) /\ row.power_out = Num(1000)
    /\ row.temp = Num(100) /\ row.precip = Num(0)
    /\ row.blanket[60] = Num(1000) /\ row.smart[60] = Num(1000)
    /\ row.blanket[65] = Num(0) /\ row.smart[65] = Num(0)

\* the timestamp t is on the calendar date of the season end, after 00:00:00
AfterEndInstant(t) == t.k = "ts" /\ date(t.v) * Day = SeasonEnd /\ t.v > SeasonEnd

\* the window table has a window for the calendar date of the season end
EndDateWindow ==
    \E k \in 1..Len(df_blanket.rows) :
        IF df_blanket.dates = "datetime"
        THEN df_blanket.rows[k].date = SeasonEnd
        ELSE df_blanket.rows[k].date * Day = SeasonEnd

\* C29: the season ends at the instant seasonEnd 00:00:00.  blanket_extract
\* derives a window for the seasonEnd date when the sun table has that date,
\* yet a row later than 00:00:00 on that date is returned unchanged whatever
\* its wind speed, while a row at exactly seasonEnd 00:00:00 whose date has a
\* window has the threshold rules carried out on it.
C29_SeasonEndsAtMidnight ==
    /\ (pc \in {"stop_work_time", "loop", "row"}
          /\ \E i \in 1..Len(sun_times) : sun_times[i].date = SeasonEnd) => EndDateWindow
    /\ Evaluated =>
          /\ AfterEndInstant(row_in.time) => (row = row_in /\ ~applied)
          /\ (row_in.time = Stamp(SeasonEnd) /\ HasWindow(row_in.time)) => RulesCarriedOut

\* 05:00 on the end date, W_hub below every threshold, a window for the date
\* in the table (07:00 would be its restrictedStart): the row is unchanged
C29_Witness ==
    /\ Evaluated /\ evals = 1
    /\ row_in.time = Stamp(TS(year, 9, 30, 5, 0, 0))
    /\ EndDateWindow /\ HasWindow(row_in.time)
    /\ RestrictedStart(row_in.time) = TS(year, 9, 30, 7, 0, 0)
    /\ row_in.W_hub = Num(40) /\ row_in.power_out = Num(1000)
    /\ row = row_in /\ ~applied

-----------------------------------------------------------------------------
(* The outcome of process_turbine *)

\* C30 (as claimed): when every input of the turbine is present and valid,
\* process_turbine goes through the forward estimate, the back-calculation and
\* both curtailment passes, writes the two series and returns False, and run
\* returns after reporting success; process_turbine returns True only when
\* something is wrong with the inputs.
C30_ValidInputsSucceed ==
    r_pc = "done" =>
        /\ r_env = {} => (r_continue = "False" /\ r_result = "returned")
        /\ r_continue = "True" => r_env # {}

====
